---- MODULE Spec2Model ----
(***************************************************************************)
(* Sight-reading trainer: key-signature helpers, note speller and exercise *)
(* generator of services/logic.ts, and the round controller of App.tsx.    *)
(*                                                                         *)
(* Five specifications share the variables:                                *)
(*   SpecSpell  the pure helpers midiToNote / getScalePitchClasses and the *)
(*              strict chord construction applied to every pitch 0..127    *)
(*              and every key;                                             *)
(*   SpecDraw   getValidRandomMidi applied to every key over the ranges of *)
(*              generateExercise and over short ranges;                    *)
(*   SpecGen    generateExercise applied to every GameSettings, with the   *)
(*              outcomes of Math.random() drawn from a bounded tape;       *)
(*   Spec       the round controller (startGame, nextTurn, stopGame,       *)
(*              handlePianoInput, submitChord and the timer callbacks);    *)
(*   SpecLive   Spec with its timers firing and the learner playing on.    *)
(***************************************************************************)
EXTENDS Integers, Sequences, FiniteSets, TLC

VARIABLES
    call,               \* SpecSpell: the arguments [midi, root, type] of the helper call
    note,               \* SpecSpell: what midiToNote returned for call (NoNote before)
    scale,              \* SpecSpell: what getScalePitchClasses returned (<<>> before)
    chord,              \* SpecSpell: the chordMidis the strict chord construction built
                        \* on call.midi, as <<[isSeventh, midis]>> (<<>> before)
    genSettings,        \* SpecGen: the GameSettings handed to generateExercise
    genState,           \* SpecGen: "ready" before the call, "returned" after it
    genItems,           \* SpecGen: the ExerciseItem[] generateExercise returned
    genDiscarded,       \* SpecGen: chord attempts the call discarded (i--; continue)
    genDraws,           \* SpecGen: the number of Math.random() calls the call made
    drawCall,           \* SpecDraw: the arguments [min, max] of getValidRandomMidi and
                        \* the tape of Math.random() outcomes it reads
    drawResult,         \* SpecDraw: <<[midi, pos]>>, the pitch getValidRandomMidi returned
                        \* and the number of draws it made (<<>> before)
    isPlaying,          \* App state (App.tsx:13)
    isLoading,          \* App state (App.tsx:14)
    settings,           \* App state (App.tsx:15)
    exerciseItems,      \* App state (App.tsx:23)
    cursorIndex,        \* App state (App.tsx:24), 0-based as in the code
    selectedChordNotes, \* App state (App.tsx:25)
    feedbackMessage,    \* App state (App.tsx:26)
    pendingStart,       \* the settings a startGame call awaiting audioService.init()
                        \* closed over, as <<settings>> (<<>> when no call is in flight)
    nextTurnTimers,     \* pending setTimeout(() => nextTurn(), 500) callbacks, oldest
                        \* first: each is the settings its nextTurn closed over
    feedbackTimers      \* number of pending setTimeout(() => setFeedbackMessage(null), 1000)

spellVars == <<call, note, scale, chord>>
genVars == <<genSettings, genState, genItems, genDiscarded, genDraws,
            drawCall, drawResult>>
appVars == <<isPlaying, isLoading, settings, exerciseItems, cursorIndex,
             selectedChordNotes, feedbackMessage, pendingStart,
             nextTurnTimers, feedbackTimers>>
vars == <<call, note, scale, chord, genSettings, genState, genItems, genDiscarded,
          genDraws, drawCall, drawResult,
          isPlaying, isLoading, settings, exerciseItems, cursorIndex,
          selectedChordNotes, feedbackMessage, pendingStart,
          nextTurnTimers, feedbackTimers>>

----------------------------------------------------------------------------
(* Types of the program (types.ts, appended to services/logic.ts)          *)

ClefTypes == {"treble", "bass"}
GameModes == {"single", "chords", "beams"}
KeyTypes == {"major", "minor"}
KeyRoots == {"C", "G", "D", "A", "E", "B", "F#", "C#",
             "F", "Bb", "Eb", "Ab", "Db", "Gb", "Cb"}

AllSettings == [clef : ClefTypes, useAccidentals : BOOLEAN, mode : GameModes,
                keyRoot : KeyRoots, keyType : KeyTypes]

Pitches == 0..127

\* Array.prototype.includes on a sequence
Includes(s, x) == \E i \in DOMAIN s : s[i] = x

----------------------------------------------------------------------------
(* Key signature logic (services/logic.ts)                                 *)

TREBLE_MIN == 53
\* faulty variant: the treble range is extended to the top of a full piano (midi 108)
TREBLE_MAX_piano == 88 + 20

TREBLE_MAX == 88
BASS_MIN == 29
BASS_MAX == 67

\* Middle C is MIDI 60 (constants.ts:4)
MIDDLE_C == 60

ROOT_MIDI_VALUES ==
    ("C" :> 0) @@ ("C#" :> 1) @@ ("Db" :> 1) @@ ("D" :> 2) @@ ("D#" :> 3) @@
    ("Eb" :> 3) @@ ("E" :> 4) @@ ("F" :> 5) @@ ("F#" :> 6) @@ ("Gb" :> 6) @@
    ("G" :> 7) @@ ("G#" :> 8) @@ ("Ab" :> 8) @@ ("A" :> 9) @@ ("A#" :> 10) @@
    ("Bb" :> 10) @@ ("B" :> 11) @@ ("Cb" :> 11)

MAJOR_INTERVALS == <<0, 2, 4, 5, 7, 9, 11>>
MINOR_INTERVALS == <<0, 2, 3, 5, 7, 8, 10>>

\* faulty variant: the modulo is forgotten
getScalePitchClasses_noMod(root, type) ==
    LET rootMidi == ROOT_MIDI_VALUES[root]
        intervals == IF type = "major" THEN MAJOR_INTERVALS ELSE MINOR_INTERVALS
    IN  [i \in DOMAIN intervals |-> rootMidi + intervals[i]]

getScalePitchClasses(root, type) ==
    LET rootMidi == ROOT_MIDI_VALUES[root]
        intervals == IF type = "major" THEN MAJOR_INTERVALS ELSE MINOR_INTERVALS
    IN  [i \in DOMAIN intervals |-> (rootMidi + intervals[i]) % 12]

\* faulty variant: the minor clause is dropped
shouldUseFlats_noMinor(root, type) ==
    root \in {"F", "Bb", "Eb", "Ab", "Db", "Gb", "Cb"}

shouldUseFlats(root, type) ==
    IF root \in {"F", "Bb", "Eb", "Ab", "Db", "Gb", "Cb"} THEN TRUE
    ELSE IF type = "minor" /\ root \in {"D", "G", "C", "F", "Bb", "Eb"} THEN TRUE
    ELSE FALSE

\* Note dictionaries: each name is the sequence of its characters
NOTE_NAMES_SHARP ==
    << <<"C">>, <<"C", "#">>, <<"D">>, <<"D", "#">>, <<"E">>, <<"F">>,
       <<"F", "#">>, <<"G">>, <<"G", "#">>, <<"A">>, <<"A", "#">>, <<"B">> >>
NOTE_NAMES_FLAT ==
    << <<"C">>, <<"D", "b">>, <<"D">>, <<"E", "b">>, <<"E">>, <<"F">>,
       <<"G", "b">>, <<"G">>, <<"A", "b">>, <<"A">>, <<"B", "b">>, <<"B">> >>

\* faulty variant: the octave is computed without the "- 1"
midiToNote_octave(midi, root, type) ==
    LET pitchClass == midi % 12
        rawName == IF shouldUseFlats(root, type) THEN NOTE_NAMES_FLAT[pitchClass + 1]
                   ELSE NOTE_NAMES_SHARP[pitchClass + 1]
        sharp == Includes(rawName, "#")
        flat == Includes(rawName, "b") /\ Len(rawName) > 1
        acc == IF sharp THEN "#" ELSE IF flat THEN "b" ELSE "null"
    IN  [midi |-> midi,
         name |-> IF sharp \/ flat THEN <<rawName[1]>> ELSE rawName,
         octave |-> midi \div 12,
         accidental |-> IF ~Includes(getScalePitchClasses(root, type), pitchClass)
                           /\ acc = "null" THEN "n" ELSE acc,
         duration |-> "undefined"]

\* faulty variant: the natural is marked on the diatonic notes instead of the foreign ones
midiToNote_natural(midi, root, type) ==
    LET pitchClass == midi % 12
        rawName == IF shouldUseFlats(root, type) THEN NOTE_NAMES_FLAT[pitchClass + 1]
                   ELSE NOTE_NAMES_SHARP[pitchClass + 1]
        sharp == Includes(rawName, "#")
        flat == Includes(rawName, "b") /\ Len(rawName) > 1
        acc == IF sharp THEN "#" ELSE IF flat THEN "b" ELSE "null"
    IN  [midi |-> midi,
         name |-> IF sharp \/ flat THEN <<rawName[1]>> ELSE rawName,
         octave |-> (midi \div 12) - 1,
         accidental |-> IF Includes(getScalePitchClasses(root, type), pitchClass)
                           /\ acc = "null" THEN "n" ELSE acc,
         duration |-> "undefined"]

midiToNote(midi, root, type) ==
    LET octave == (midi \div 12) - 1
        pitchClass == midi % 12
        useFlats == shouldUseFlats(root, type)
        rawName == IF useFlats THEN NOTE_NAMES_FLAT[pitchClass + 1]
                   ELSE NOTE_NAMES_SHARP[pitchClass + 1]
        sharp == Includes(rawName, "#")
        flat == ~sharp /\ Includes(rawName, "b") /\ Len(rawName) > 1
        name == IF sharp \/ flat THEN <<rawName[1]>> ELSE rawName
        parsed == IF sharp THEN "#" ELSE IF flat THEN "b" ELSE "null"
        diatonicPitchClasses == getScalePitchClasses(root, type)
        isDiatonic == Includes(diatonicPitchClasses, pitchClass)
        accidental == IF ~isDiatonic /\ parsed = "null" THEN "n" ELSE parsed
    IN  [midi |-> midi, name |-> name, octave |-> octave,
         accidental |-> accidental, duration |-> "undefined"]

NoNote == [midi |-> -1, name |-> <<>>, octave |-> 0,
           accidental |-> "null", duration |-> "undefined"]

----------------------------------------------------------------------------
(* Math.random(): an outcome r in [0,1) is the numerator of r over RandDen. *)
(* A call of generateExercise reads its outcomes from a tape of TapeLen    *)
(* values, cyclically: the pos-th draw of the call is tape[pos mod TapeLen].*)

RandDen == 1000
RandN == 5
TapeLen == 2

RandVals == {(k * (RandDen - 1)) \div (RandN - 1) : k \in 0..(RandN - 1)}
Tapes == [1..TapeLen -> RandVals]

Random(tape, pos) == tape[(pos % TapeLen) + 1]

\* Math.random() > 0.7 and Math.random() > 0.5
Above7(r) == 10 * r > 7 * RandDen
Above5(r) == 10 * r > 5 * RandDen

\* faulty variant: the span is one too wide, so the draw can exceed max
getRandomInt_wide(min, max, r) == ((r * (max - min + 2)) \div RandDen) + min

getRandomInt(min, max, r) == ((r * (max - min + 1)) \div RandDen) + min

----------------------------------------------------------------------------
(* generateExercise (services/logic.ts)                                    *)

MaxAttempts == 100
ItemCount == 6

\* How many chord attempts generateExercise may discard before the model
\* gives the call up as not returning
MaxDiscards == 3

\* faulty variant: the strict-mode check is lost, every pitch is valid
isValidNote_any(s, dpc, midi) == TRUE

\* isValidNote closes over settings and over diatonicPitchClasses, which
\* generateExercise computes once (logic.ts:112): dpc is that array
isValidNote(s, dpc, midi) ==
    IF ~s.useAccidentals
    THEN Includes(dpc, midi % 12)
    ELSE TRUE

\* faulty variant: the fallback scan runs downwards from max
FirstValid_descending(s, dpc, min, max) ==
    IF \E i \in min..max : isValidNote(s, dpc, i)
    THEN CHOOSE i \in min..max :
            /\ isValidNote(s, dpc, i)
            /\ \A j \in (i + 1)..max : ~isValidNote(s, dpc, j)
    ELSE max

\* the fallback scan: for (i = min; i <= max; i++) if valid return i; return min
FirstValid(s, dpc, min, max) ==
    IF \E i \in min..max : isValidNote(s, dpc, i)
    THEN CHOOSE i \in min..max :
            /\ isValidNote(s, dpc, i)
            /\ \A j \in min..(i - 1) : ~isValidNote(s, dpc, j)
    ELSE min

\* while (attempts < 100) { midi = getRandomInt(min, max); if valid return midi;
\* attempts++ }: the attempt numbered a (from 0) reads draw pos + a. Returns the
\* pitch and the number of draws consumed so far.
getValidRandomMidi(s, dpc, min, max, tape, pos) ==
    LET Draw(a) == getRandomInt(min, max, Random(tape, pos + a))
        Hit(a) == isValidNote(s, dpc, Draw(a))
    IN  IF \E a \in 0..(MaxAttempts - 1) : Hit(a)
        THEN LET first == CHOOSE a \in 0..(MaxAttempts - 1) :
                             Hit(a) /\ \A b \in 0..(a - 1) : ~Hit(b)
             IN  [midi |-> Draw(first), pos |-> pos + first + 1]
        ELSE [midi |-> FirstValid(s, dpc, min, max), pos |-> pos + MaxAttempts]

ClefMin(s) == IF s.clef = "treble" THEN TREBLE_MIN ELSE BASS_MIN
ClefMax(s) == IF s.clef = "treble" THEN TREBLE_MAX ELSE BASS_MAX

\* faulty variant: the item is pushed as already judged
NewItem_judged(items, notes, isBeam, beamIndex) ==
    [id |-> Len(items) + 1, notes |-> notes, status |-> "correct",
     isBeamGroup |-> isBeam, beamGroupIndex |-> beamIndex]

\* items.push({ id: uuidv4(), notes, status: 'pending' [, isBeamGroup, beamGroupIndex] })
\* uuidv4() is a fresh identifier: the serial number of the push
NewItem(items, notes, isBeam, beamIndex) ==
    [id |-> Len(items) + 1, notes |-> notes, status |-> "pending",
     isBeamGroup |-> isBeam, beamGroupIndex |-> beamIndex]

RECURSIVE singleLoop(_, _, _, _, _, _)
singleLoop(s, dpc, tape, pos, i, items) ==
    IF i < ItemCount
    THEN LET d == getValidRandomMidi(s, dpc, ClefMin(s), ClefMax(s), tape, pos)
             n == midiToNote(d.midi, s.keyRoot, s.keyType)
         IN  singleLoop(s, dpc, tape, d.pos, i + 1,
                        Append(items, NewItem(items, <<n>>, "undefined", "undefined")))
    ELSE [items |-> items, discarded |-> 0, returned |-> TRUE, pos |-> pos]

\* faulty variant: only the major third is probed, so a root with a minor third
\* above it in the scale is discarded
diatonicChord_majorOnly(dpc, root, isSeventh) ==
    LET In(m) == Includes(dpc, m % 12)
        third == IF In(root + 4) THEN <<root + 4>> ELSE <<>>
        fifth == IF In(root + 7) THEN <<root + 7>>
                 ELSE IF In(root + 6) THEN <<root + 6>> ELSE <<>>
    IN  IF third = <<>> THEN <<>> ELSE <<root>> \o third \o fifth

\* faulty variant: the perfect fifth is the only fifth probed, the diminished
\* fifth is left out
diatonicChord_perfect(dpc, root, isSeventh) ==
    LET In(m) == Includes(dpc, m % 12)
        third == IF In(root + 3) THEN <<root + 3>>
                 ELSE IF In(root + 4) THEN <<root + 4>> ELSE <<>>
        fifth == IF In(root + 7) THEN <<root + 7>> ELSE <<>>
        seventh == IF ~isSeventh THEN <<>>
                   ELSE IF In(root + 11) THEN <<root + 11>>
                   ELSE IF In(root + 10) THEN <<root + 10>>
                   ELSE IF In(root + 9) THEN <<root + 9>> ELSE <<>>
    IN  IF third = <<>> THEN <<>> ELSE <<root>> \o third \o fifth \o seventh

\* DIATONIC CHORDS ONLY: the tones stacked on root, or <<>> when the attempt
\* is discarded because neither third fits
diatonicChord(dpc, root, isSeventh) ==
    LET In(m) == Includes(dpc, m % 12)
        third == IF In(root + 3) THEN <<root + 3>>
                 ELSE IF In(root + 4) THEN <<root + 4>> ELSE <<>>
        fifth == IF In(root + 7) THEN <<root + 7>>
                 ELSE IF In(root + 6) THEN <<root + 6>> ELSE <<>>
        seventh == IF ~isSeventh THEN <<>>
                   ELSE IF In(root + 11) THEN <<root + 11>>
                   ELSE IF In(root + 10) THEN <<root + 10>>
                   ELSE IF In(root + 9) THEN <<root + 9>> ELSE <<>>
    IN  IF third = <<>> THEN <<>> ELSE <<root>> \o third \o fifth \o seventh

\* Chromatic chords (random structure): the tones and the draws consumed
chromaticChord(root, isSeventh, tape, pos) ==
    LET third == IF Above5(Random(tape, pos)) THEN 4 ELSE 3
        base == <<root, root + third, root + 7>>
    IN  IF isSeventh
        THEN [midis |-> Append(base, root + 10
                                 + (IF Above5(Random(tape, pos + 1)) THEN 1 ELSE 0)),
              pos |-> pos + 2]
        ELSE [midis |-> base, pos |-> pos + 1]

RECURSIVE chordsLoop(_, _, _, _, _, _, _)
chordsLoop(s, dpc, tape, pos, i, items, discarded) ==
    IF i < ItemCount
    THEN LET safeMax == ClefMax(s) - 11
             d == getValidRandomMidi(s, dpc, ClefMin(s), safeMax, tape, pos)
             root == d.midi
             isSeventh == Above7(Random(tape, d.pos))
             pos1 == d.pos + 1
             chrom == chromaticChord(root, isSeventh, tape, pos1)
             chordMidis == IF ~s.useAccidentals
                           THEN diatonicChord(dpc, root, isSeventh)
                           ELSE chrom.midis
             pos2 == IF ~s.useAccidentals THEN pos1 ELSE chrom.pos
             discard == \/ chordMidis = <<>>
                        \/ (~s.useAccidentals
                            /\ \E k \in DOMAIN chordMidis : ~isValidNote(s, dpc, chordMidis[k]))
             finalNotes == [k \in DOMAIN chordMidis |->
                               midiToNote(chordMidis[k], s.keyRoot, s.keyType)]
         IN  IF discard
             THEN IF discarded < MaxDiscards
                  THEN chordsLoop(s, dpc, tape, pos2, i, items, discarded + 1)
                  ELSE [items |-> items, discarded |-> discarded + 1,
                        returned |-> FALSE, pos |-> pos2]
             ELSE chordsLoop(s, dpc, tape, pos2, i + 1,
                             Append(items, NewItem(items, finalNotes,
                                                   "undefined", "undefined")),
                             discarded)
    ELSE [items |-> items, discarded |-> discarded, returned |-> TRUE, pos |-> pos]

RECURSIVE beamNotesLoop(_, _, _, _, _, _, _, _)
beamNotesLoop(s, dpc, tape, pos, n, groupSize, currentBeamIndex, items) ==
    IF n < groupSize
    THEN LET d == getValidRandomMidi(s, dpc, ClefMin(s), ClefMax(s), tape, pos)
             nt == [midiToNote(d.midi, s.keyRoot, s.keyType) EXCEPT !.duration = "16"]
         IN  beamNotesLoop(s, dpc, tape, d.pos, n + 1, groupSize, currentBeamIndex,
                           Append(items, NewItem(items, <<nt>>, TRUE, currentBeamIndex)))
    ELSE [items |-> items, pos |-> pos]

RECURSIVE beamGroupsLoop(_, _, _, _, _, _, _, _)
\* faulty variant: currentBeamIndex++ sits inside the note loop's last iteration only
\* when the group is full-sized, so smaller groups share the next group's index
beamGroupsLoop_index(s, dpc, tape, pos, g, numGroups, currentBeamIndex, items) ==
    IF g < numGroups
    THEN LET groupSize == getRandomInt(4, 6, Random(tape, pos))
             grp == beamNotesLoop(s, dpc, tape, pos + 1, 0, groupSize, currentBeamIndex, items)
         IN  beamGroupsLoop(s, dpc, tape, grp.pos, g + 1, numGroups,
                            IF groupSize = 6 THEN currentBeamIndex + 1
                            ELSE currentBeamIndex, grp.items)
    ELSE [items |-> items, discarded |-> 0, returned |-> TRUE, pos |-> pos]

beamGroupsLoop(s, dpc, tape, pos, g, numGroups, currentBeamIndex, items) ==
    IF g < numGroups
    THEN LET groupSize == getRandomInt(4, 6, Random(tape, pos))
             grp == beamNotesLoop(s, dpc, tape, pos + 1, 0, groupSize, currentBeamIndex, items)
         IN  beamGroupsLoop(s, dpc, tape, grp.pos, g + 1, numGroups,
                            currentBeamIndex + 1, grp.items)
    ELSE [items |-> items, discarded |-> 0, returned |-> TRUE, pos |-> pos]

\* the result: the items, the number of discarded chord attempts, whether the
\* call returned within MaxDiscards discards, and the number of draws it made
generateExercise(s, tape) ==
    LET dpc == getScalePitchClasses(s.keyRoot, s.keyType)
    IN
    IF s.mode = "single" THEN singleLoop(s, dpc, tape, 0, 0, <<>>)
    ELSE IF s.mode = "chords" THEN chordsLoop(s, dpc, tape, 0, 0, <<>>, 0)
    ELSE IF s.mode = "beams"
    THEN beamGroupsLoop(s, dpc, tape, 1, 0, getRandomInt(3, 4, Random(tape, 0)), 0, <<>>)
    ELSE [items |-> <<>>, discarded |-> 0, returned |-> TRUE, pos |-> 0]

----------------------------------------------------------------------------
(* SpecSpell: the helpers applied to every pitch and key                   *)

InitApp ==
    /\ isPlaying = FALSE
    /\ isLoading = FALSE
    /\ settings = [clef |-> "treble", useAccidentals |-> FALSE, mode |-> "single",
                   keyRoot |-> "C", keyType |-> "major"]
    /\ exerciseItems = <<>>
    /\ cursorIndex = 0
    /\ selectedChordNotes = <<>>
    /\ feedbackMessage = "null"
    /\ pendingStart = <<>>
    /\ nextTurnTimers = <<>>
    /\ feedbackTimers = 0

InitDrawIdle ==
    /\ drawCall = [min |-> TREBLE_MIN, max |-> TREBLE_MAX, tape |-> [i \in 1..TapeLen |-> 0]]
    /\ drawResult = <<>>

InitGenIdle ==
    /\ genSettings = [clef |-> "treble", useAccidentals |-> FALSE, mode |-> "single",
                      keyRoot |-> "C", keyType |-> "major"]
    /\ genState = "ready"
    /\ genItems = <<>>
    /\ genDiscarded = 0
    /\ genDraws = 0
    /\ InitDrawIdle

InitSpellIdle ==
    /\ call = [midi |-> 60, root |-> "C", type |-> "major"]
    /\ note = NoNote
    /\ scale = <<>>
    /\ chord = <<>>

InitSpell ==
    /\ call \in [midi : Pitches, root : KeyRoots, type : KeyTypes]
    /\ note = NoNote
    /\ scale = <<>>
    /\ chord = <<>>
    /\ InitGenIdle
    /\ InitApp

Spell ==
    /\ note = NoNote
    /\ note' = midiToNote(call.midi, call.root, call.type)
    /\ UNCHANGED <<call, scale, chord>>
    /\ UNCHANGED genVars
    /\ UNCHANGED appVars

Scale ==
    /\ scale = <<>>
    /\ scale' = getScalePitchClasses(call.root, call.type)
    /\ UNCHANGED <<call, note, chord>>
    /\ UNCHANGED genVars
    /\ UNCHANGED appVars

\* the strict chord construction of generateExercise (logic.ts:158-189) on the
\* root call.midi in the key of call, with either outcome of the seventh flag
StackThirds ==
    /\ chord = <<>>
    /\ \E isSeventh \in BOOLEAN :
          chord' = <<[isSeventh |-> isSeventh,
                      midis |-> diatonicChord(getScalePitchClasses(call.root, call.type),
                                              call.midi, isSeventh)]>>
    /\ UNCHANGED <<call, note, scale>>
    /\ UNCHANGED genVars
    /\ UNCHANGED appVars

NextSpell == Spell \/ Scale \/ StackThirds

SpecSpell == InitSpell /\ [][NextSpell]_vars

----------------------------------------------------------------------------
(* SpecGen: generateExercise applied to every GameSettings                 *)

InitGen ==
    /\ genSettings \in AllSettings
    /\ genState = "ready"
    /\ genItems = <<>>
    /\ genDiscarded = 0
    /\ genDraws = 0
    /\ InitDrawIdle
    /\ InitSpellIdle
    /\ InitApp

Generate ==
    /\ genState = "ready"
    /\ \E tape \in Tapes :
          LET r == generateExercise(genSettings, tape)
          IN  /\ genItems' = r.items
              /\ genDiscarded' = r.discarded
              /\ genDraws' = r.pos
              /\ genState' = IF r.returned THEN "returned" ELSE "looping"
    /\ UNCHANGED <<genSettings, drawCall, drawResult>>
    /\ UNCHANGED spellVars
    /\ UNCHANGED appVars

NextGen == Generate

SpecGen == InitGen /\ [][NextGen]_vars

----------------------------------------------------------------------------
(* SpecDraw: getValidRandomMidi applied to every key, strict or chromatic, *)
(* over the ranges generateExercise calls it with and over short ranges    *)

\* the ranges of generateExercise's calls: (min, max) and (min, safeMax)
ExerciseRanges ==
    {[min |-> TREBLE_MIN, max |-> TREBLE_MAX], [min |-> BASS_MIN, max |-> BASS_MAX],
     [min |-> TREBLE_MIN, max |-> TREBLE_MAX - 11], [min |-> BASS_MIN, max |-> BASS_MAX - 11]}

\* short ranges starting on each pitch of the octave of middle C, some of
\* which hold no diatonic pitch: widths up to MaxShortWidth
MaxShortWidth == 1
ShortRanges ==
    {[min |-> m, max |-> m + w] : m \in MIDDLE_C..(MIDDLE_C + 11), w \in 0..MaxShortWidth}

DrawSettings == {s \in AllSettings : s.clef = "treble" /\ s.mode = "single"}

InitDraw ==
    /\ genSettings \in DrawSettings
    /\ \E r \in ExerciseRanges \cup ShortRanges, tape \in Tapes :
          drawCall = [min |-> r.min, max |-> r.max, tape |-> tape]
    /\ drawResult = <<>>
    /\ genState = "ready"
    /\ genItems = <<>>
    /\ genDiscarded = 0
    /\ genDraws = 0
    /\ InitSpellIdle
    /\ InitApp

Draw ==
    /\ drawResult = <<>>
    /\ drawResult' = <<getValidRandomMidi(genSettings,
                           getScalePitchClasses(genSettings.keyRoot, genSettings.keyType),
                           drawCall.min, drawCall.max, drawCall.tape, 0)>>
    /\ UNCHANGED <<genSettings, genState, genItems, genDiscarded, genDraws, drawCall>>
    /\ UNCHANGED spellVars
    /\ UNCHANGED appVars

NextDraw == Draw

SpecDraw == InitDraw /\ [][NextDraw]_vars

----------------------------------------------------------------------------
(* The on-screen keyboard (constants.ts)                                   *)

START_MIDI == 29
\* faulty variant: the keyboard is one white key short
TOTAL_WHITE_KEYS_short == 35 - 1

TOTAL_WHITE_KEYS == 35

RECURSIVE keyboardLoop(_, _, _)
keyboardLoop(currentMidi, whiteKeyCount, keys) ==
    IF whiteKeyCount < TOTAL_WHITE_KEYS
    THEN LET octave == (currentMidi \div 12) - 1
             noteInOctave == currentMidi % 12
             isBlack == noteInOctave \in {1, 3, 6, 8, 10}
             name == NOTE_NAMES_SHARP[noteInOctave + 1]
         IN  keyboardLoop(currentMidi + 1,
                          IF ~isBlack THEN whiteKeyCount + 1 ELSE whiteKeyCount,
                          Append(keys, [midi |-> currentMidi,
                                        type |-> IF isBlack THEN "black" ELSE "white",
                                        label |-> <<name, octave>>]))
    ELSE keys

generateKeyboardMap == keyboardLoop(START_MIDI, 0, <<>>)

KEYBOARD_MAP == generateKeyboardMap

KeyboardPitches == {KEYBOARD_MAP[i].midi : i \in DOMAIN KEYBOARD_MAP}

----------------------------------------------------------------------------
(* Array.prototype.sort() without a comparator: the elements are compared  *)
(* as strings, by UTF-16 code units; for numbers, by their decimal digits. *)

RECURSIVE NumberToString(_)
NumberToString(n) == IF n < 10 THEN <<n>> ELSE Append(NumberToString(n \div 10), n % 10)

\* a < b as strings: at the first differing position, or a a proper prefix of b
StringLess(a, b) ==
    \/ \E i \in 1..Len(a) :
          /\ i <= Len(b)
          /\ a[i] < b[i]
          /\ \A j \in 1..(i - 1) : a[j] = b[j]
    \/ /\ Len(a) < Len(b)
       /\ \A j \in 1..Len(a) : a[j] = b[j]

\* x inserted into the sorted seq, after the elements not greater than it (stable)
RECURSIVE InsertSorted(_, _)
InsertSorted(seq, x) ==
    IF seq = <<>> THEN <<x>>
    ELSE IF StringLess(NumberToString(x), NumberToString(seq[Len(seq)]))
         THEN Append(InsertSorted(SubSeq(seq, 1, Len(seq) - 1), x), seq[Len(seq)])
         ELSE Append(seq, x)

RECURSIVE DefaultSort(_)
DefaultSort(seq) ==
    IF seq = <<>> THEN <<>>
    ELSE InsertSorted(DefaultSort(SubSeq(seq, 1, Len(seq) - 1)), seq[Len(seq)])

----------------------------------------------------------------------------
(* Spec: the round controller (App.tsx)                                    *)

\* Bounds of the controller's model: pending timers of each kind
MaxNextTurnTimers == 1
MaxFeedbackTimers == 1

\* The settings the menu screen's buttons lead to in the model: every mode,
\* with the other fields as App starts them (App.tsx:15-21)
MenuSettings ==
    {s \in AllSettings : /\ s.clef = "treble" /\ s.useAccidentals = FALSE
                         /\ s.keyRoot = "C" /\ s.keyType = "major"}

\* The outcomes of Math.random() in a round of the controller: every draw 0,
\* or every draw 0.18 (in C major: other pitches, the same round lengths)
GameTapes == {[i \in 1..TapeLen |-> 0], [i \in 1..TapeLen |-> (18 * RandDen) \div 100]}

\* const newItems = generateExercise(settings): the rounds of the controller,
\* computed once for each of its settings and tapes
GameRounds ==
    {[settings |-> s, tape |-> tape, items |-> generateExercise(s, tape).items] :
        s \in MenuSettings, tape \in GameTapes}

newItems(s, tape) ==
    (CHOOSE r \in GameRounds : r.settings = s /\ r.tape = tape).items

TargetMidis(item) == [k \in DOMAIN item.notes |-> item.notes[k].midi]

SeqRange(seq) == {seq[k] : k \in DOMAIN seq}

\* The lowest key of the keyboard that is not a target of the item
WrongKey(item) ==
    CHOOSE m \in KeyboardPitches :
        /\ m \notin SeqRange(TargetMidis(item))
        /\ \A l \in KeyboardPitches : l < m => l \in SeqRange(TargetMidis(item))

\* The keys the learner presses on an item: its targets and, on an item of one
\* note and on the first chord of a round, the wrong key too
LearnerKeys(item) ==
    IF Len(item.notes) > 1 /\ item.id > 1 THEN SeqRange(TargetMidis(item))
    ELSE SeqRange(TargetMidis(item)) \cup {WrongKey(item)}

\* prev.filter(n => n !== midi)
Without(seq, x) == SelectSeq(seq, LAMBDA n : n # x)

\* the fields in which two settings differ
Changed(s, t) == {f \in DOMAIN s : s[f] # t[f]}

\* setSettings(prev => ({ ...prev, field: value })) of a menu button
SetSettings ==
    /\ ~isPlaying
    /\ \E new \in MenuSettings :
          /\ Cardinality(Changed(settings, new)) = 1
          /\ settings' = new
    /\ UNCHANGED <<isPlaying, isLoading, exerciseItems, cursorIndex,
                   selectedChordNotes, feedbackMessage, pendingStart,
                   nextTurnTimers, feedbackTimers>>
    /\ UNCHANGED spellVars
    /\ UNCHANGED genVars

\* startGame up to its await: setIsLoading(true); await audioService.init()
StartGame ==
    /\ ~isPlaying
    /\ ~isLoading
    /\ isLoading' = TRUE
    /\ pendingStart' = <<settings>>
    /\ UNCHANGED <<isPlaying, settings, exerciseItems, cursorIndex,
                   selectedChordNotes, feedbackMessage, nextTurnTimers,
                   feedbackTimers>>
    /\ UNCHANGED spellVars
    /\ UNCHANGED genVars

\* startGame after audioService.init() resolved
StartGameLoaded ==
    /\ pendingStart # <<>>
    /\ \E tape \in GameTapes :
          exerciseItems' = newItems(pendingStart[1], tape)
    /\ cursorIndex' = 0
    /\ selectedChordNotes' = <<>>
    /\ feedbackMessage' = "null"
    /\ isPlaying' = TRUE
    /\ isLoading' = FALSE
    /\ pendingStart' = <<>>
    /\ UNCHANGED <<settings, nextTurnTimers, feedbackTimers>>
    /\ UNCHANGED spellVars
    /\ UNCHANGED genVars

\* startGame after audioService.init() rejected: the catch and finally blocks
StartGameFailed ==
    /\ pendingStart # <<>>
    /\ feedbackMessage' = "Error loading sounds. Please check your connection."
    /\ isLoading' = FALSE
    /\ pendingStart' = <<>>
    /\ UNCHANGED <<isPlaying, settings, exerciseItems, cursorIndex,
                   selectedChordNotes, nextTurnTimers, feedbackTimers>>
    /\ UNCHANGED spellVars
    /\ UNCHANGED genVars

\* faulty variant: the callback installs the new items but leaves the cursor
\* where the finished round left it
NextTurn_keepCursor ==
    /\ nextTurnTimers # <<>>
    /\ \E tape \in GameTapes :
          exerciseItems' = newItems(Head(nextTurnTimers), tape)
    /\ selectedChordNotes' = <<>>
    /\ feedbackMessage' = "null"
    /\ nextTurnTimers' = Tail(nextTurnTimers)
    /\ UNCHANGED <<isPlaying, isLoading, settings, pendingStart, feedbackTimers,
                   cursorIndex>>
    /\ UNCHANGED spellVars
    /\ UNCHANGED genVars

\* a setTimeout(() => nextTurn(), 500) callback runs
NextTurn ==
    /\ nextTurnTimers # <<>>
    /\ \E tape \in GameTapes :
          exerciseItems' = newItems(Head(nextTurnTimers), tape)
    /\ cursorIndex' = 0
    /\ selectedChordNotes' = <<>>
    /\ feedbackMessage' = "null"
    /\ nextTurnTimers' = Tail(nextTurnTimers)
    /\ UNCHANGED <<isPlaying, isLoading, settings, pendingStart, feedbackTimers>>
    /\ UNCHANGED spellVars
    /\ UNCHANGED genVars

StopGame ==
    /\ isPlaying
    /\ isPlaying' = FALSE
    /\ exerciseItems' = <<>>
    /\ UNCHANGED <<isLoading, settings, cursorIndex, selectedChordNotes,
                   feedbackMessage, pendingStart, nextTurnTimers, feedbackTimers>>
    /\ UNCHANGED spellVars
    /\ UNCHANGED genVars

\* faulty variant: the judged item is also re-created under a new id
MarkCorrectAndAdvance_renew ==
    /\ exerciseItems' = [exerciseItems EXCEPT ![cursorIndex + 1].status = "correct",
                                              ![cursorIndex + 1].id = 0]
    /\ IF cursorIndex + 1 < Len(exerciseItems)
       THEN /\ cursorIndex' = cursorIndex + 1
            /\ UNCHANGED nextTurnTimers
       ELSE /\ Len(nextTurnTimers) < MaxNextTurnTimers
            /\ nextTurnTimers' = Append(nextTurnTimers, settings)
            /\ UNCHANGED cursorIndex

\* faulty variant: the cursor advances past the last item too
MarkCorrectAndAdvance_past ==
    /\ exerciseItems' = [exerciseItems EXCEPT ![cursorIndex + 1].status = "correct"]
    /\ cursorIndex' = cursorIndex + 1
    /\ IF cursorIndex + 1 < Len(exerciseItems)
       THEN UNCHANGED nextTurnTimers
       ELSE /\ Len(nextTurnTimers) < MaxNextTurnTimers
            /\ nextTurnTimers' = Append(nextTurnTimers, settings)

\* updatedItems[cursorIndex].status = 'correct'; then advance the cursor or,
\* on the last item, schedule nextTurn
MarkCorrectAndAdvance ==
    /\ exerciseItems' = [exerciseItems EXCEPT ![cursorIndex + 1].status = "correct"]
    /\ IF cursorIndex + 1 < Len(exerciseItems)
       THEN /\ cursorIndex' = cursorIndex + 1
            /\ UNCHANGED nextTurnTimers
       ELSE /\ Len(nextTurnTimers) < MaxNextTurnTimers
            /\ nextTurnTimers' = Append(nextTurnTimers, settings)
            /\ UNCHANGED cursorIndex

\* handlePianoInput(midi), single and beams modes, midi === targetMidi
PianoCorrect(midi) ==
    /\ isPlaying
    /\ cursorIndex < Len(exerciseItems)
    /\ settings.mode \in {"single", "beams"}
    /\ midi = exerciseItems[cursorIndex + 1].notes[1].midi
    /\ MarkCorrectAndAdvance
    /\ UNCHANGED <<isPlaying, isLoading, settings, selectedChordNotes,
                   feedbackMessage, pendingStart, feedbackTimers>>
    /\ UNCHANGED spellVars
    /\ UNCHANGED genVars

\* handlePianoInput(midi), single and beams modes, midi !== targetMidi
PianoIncorrect(midi) ==
    /\ isPlaying
    /\ cursorIndex < Len(exerciseItems)
    /\ settings.mode \in {"single", "beams"}
    /\ midi # exerciseItems[cursorIndex + 1].notes[1].midi
    /\ feedbackTimers < MaxFeedbackTimers
    /\ feedbackMessage' = "Try again!"
    /\ feedbackTimers' = feedbackTimers + 1
    /\ UNCHANGED <<isPlaying, isLoading, settings, exerciseItems, cursorIndex,
                   selectedChordNotes, pendingStart, nextTurnTimers>>
    /\ UNCHANGED spellVars
    /\ UNCHANGED genVars

\* handlePianoInput(midi), chords mode: toggle the selection
PianoToggle(midi) ==
    /\ isPlaying
    /\ cursorIndex < Len(exerciseItems)
    /\ settings.mode = "chords"
    /\ IF Includes(selectedChordNotes, midi)
       THEN selectedChordNotes' = Without(selectedChordNotes, midi)
       ELSE selectedChordNotes' = Append(selectedChordNotes, midi)
    /\ UNCHANGED <<isPlaying, isLoading, settings, exerciseItems, cursorIndex,
                   feedbackMessage, pendingStart, nextTurnTimers, feedbackTimers>>
    /\ UNCHANGED spellVars
    /\ UNCHANGED genVars

HandlePianoInput ==
    \E midi \in KeyboardPitches :
        /\ cursorIndex < Len(exerciseItems)
        /\ midi \in LearnerKeys(exerciseItems[cursorIndex + 1])
        /\ \/ PianoCorrect(midi)
           \/ PianoIncorrect(midi)
           \/ PianoToggle(midi)

\* faulty variant: the selection is compared in the order of its selection
ChordIsCorrect_ordered ==
    DefaultSort(TargetMidis(exerciseItems[cursorIndex + 1])) = selectedChordNotes

\* the judge's comparison: JSON.stringify(targetMidis) === JSON.stringify(selectedSorted)
ChordIsCorrect ==
    DefaultSort(TargetMidis(exerciseItems[cursorIndex + 1]))
        = DefaultSort(selectedChordNotes)

\* submitChord, isCorrect
SubmitChordCorrect ==
    /\ isPlaying
    /\ settings.mode = "chords"
    /\ cursorIndex < Len(exerciseItems)
    /\ ChordIsCorrect
    /\ MarkCorrectAndAdvance
    /\ selectedChordNotes' = <<>>
    /\ UNCHANGED <<isPlaying, isLoading, settings, feedbackMessage,
                   pendingStart, feedbackTimers>>
    /\ UNCHANGED spellVars
    /\ UNCHANGED genVars

\* submitChord, not isCorrect
SubmitChordIncorrect ==
    /\ isPlaying
    /\ settings.mode = "chords"
    /\ cursorIndex < Len(exerciseItems)
    /\ ~ChordIsCorrect
    /\ feedbackTimers < MaxFeedbackTimers
    /\ feedbackMessage' = "Incorrect chord notes."
    /\ feedbackTimers' = feedbackTimers + 1
    /\ UNCHANGED <<isPlaying, isLoading, settings, exerciseItems, cursorIndex,
                   selectedChordNotes, pendingStart, nextTurnTimers>>
    /\ UNCHANGED spellVars
    /\ UNCHANGED genVars

SubmitChord == SubmitChordCorrect \/ SubmitChordIncorrect

\* a setTimeout(() => setFeedbackMessage(null), 1000) callback runs
ClearFeedback ==
    /\ feedbackTimers > 0
    /\ feedbackMessage' = "null"
    /\ feedbackTimers' = feedbackTimers - 1
    /\ UNCHANGED <<isPlaying, isLoading, settings, exerciseItems, cursorIndex,
                   selectedChordNotes, pendingStart, nextTurnTimers>>
    /\ UNCHANGED spellVars
    /\ UNCHANGED genVars

Init ==
    /\ InitApp
    /\ InitSpellIdle
    /\ InitGenIdle

Next ==
    \/ SetSettings
    \/ StartGame
    \/ StartGameLoaded
    \/ StartGameFailed
    \/ NextTurn
    \/ StopGame
    \/ HandlePianoInput
    \/ SubmitChord
    \/ ClearFeedback

Spec == Init /\ [][Next]_vars

----------------------------------------------------------------------------
(* SpecLive: the round controller with its timers firing and the learner   *)
(* going on playing                                                        *)

\* the learner plays the pitch of the active item (single and beams modes)
CorrectKey == \E midi \in KeyboardPitches : PianoCorrect(midi)

\* A pending setTimeout callback runs once its delay has elapsed (the event
\* loop is never blocked: every handler returns). A learner who keeps playing
\* the active item's pitch does press it: the hypothesis of round progress.
SpecLive ==
    /\ Init
    /\ [][Next]_vars
    /\ WF_vars(NextTurn)
    /\ WF_vars(ClearFeedback)
    /\ WF_vars(CorrectKey)

----------------------------------------------------------------------------
(* Claims about the pure helpers, checked under SpecSpell                  *)

\* Decoding of a spelled note: the letter's pitch-class and the accidental's offset
LetterPitchClass ==
    ("C" :> 0) @@ ("D" :> 2) @@ ("E" :> 4) @@ ("F" :> 5) @@ ("G" :> 7) @@
    ("A" :> 9) @@ ("B" :> 11)

AccidentalOffset(acc) == IF acc = "#" THEN 1 ELSE IF acc = "b" THEN -1 ELSE 0

Decode(n) ==
    12 * (n.octave + 1) + LetterPitchClass[n.name[1]] + AccidentalOffset(n.accidental)

\* C1: for every pitch 0..127 and every key, midiToNote returns one note whose
\* letter + accidental + octave decodes back to the pitch, with
\* octave = floor(pitch / 12) - 1.
C1_RoundTrip ==
    note # NoNote =>
        /\ Len(note.name) = 1
        /\ note.name[1] \in DOMAIN LetterPitchClass
        /\ note.accidental \in {"#", "b", "n", "null"}
        /\ note.midi = call.midi
        /\ note.octave = (call.midi \div 12) - 1
        /\ Decode(note) = call.midi

\* C1 witness: B flat 4 (pitch 70) spelled in F major
C1_Witness ==
    /\ note # NoNote
    /\ call = [midi |-> 70, root |-> "F", type |-> "major"]
    /\ note.name = <<"B">> /\ note.accidental = "b" /\ note.octave = 4

\* C4: getScalePitchClasses returns exactly 7 pairwise-distinct values in 0..11,
\* equal to (root pitch-class + interval) mod 12 in the order of the scale
\* intervals (major 0,2,4,5,7,9,11; natural minor 0,2,3,5,7,8,10).
C4_ScaleCoverage ==
    scale # <<>> =>
        LET ivs == IF call.type = "major" THEN <<0, 2, 4, 5, 7, 9, 11>>
                   ELSE <<0, 2, 3, 5, 7, 8, 10>>
        IN  /\ Len(scale) = 7
            /\ \A i \in 1..7 : scale[i] \in 0..11
            /\ \A i, j \in 1..7 : i # j => scale[i] # scale[j]
            /\ \A i \in 1..7 : scale[i] = (ROOT_MIDI_VALUES[call.root] + ivs[i]) % 12

\* C4 witness: C flat minor, whose scale wraps around the octave
C4_Witness ==
    /\ call.root = "Cb" /\ call.type = "minor"
    /\ scale = <<11, 1, 2, 4, 6, 7, 9>>

\* The name the selected table holds for the pitch-class of the call
TableName ==
    IF shouldUseFlats(call.root, call.type) THEN NOTE_NAMES_FLAT[(call.midi % 12) + 1]
    ELSE NOTE_NAMES_SHARP[(call.midi % 12) + 1]

CallIsDiatonic ==
    \E i \in 1..7 : getScalePitchClasses(call.root, call.type)[i] = call.midi % 12

\* C5: midiToNote returns accidental 'n' exactly when the pitch-class is not
\* diatonic to the key and the table name carries no sharp or flat; a name with
\* '#' or 'b' keeps that accidental; a diatonic natural-lettered pitch gets no
\* accidental. In D major pitch-class 5 is spelled 'n' and pitch-class 6 '#'.
C5_NaturalMarking ==
    note # NoNote =>
        /\ (note.accidental = "n") <=> (~CallIsDiatonic /\ Len(TableName) = 1)
        /\ Len(TableName) = 2 => note.accidental = TableName[2]
        /\ (CallIsDiatonic /\ Len(TableName) = 1) => note.accidental = "null"
        /\ (call.root = "D" /\ call.type = "major" /\ call.midi % 12 = 5)
               => (note.name = <<"F">> /\ note.accidental = "n")
        /\ (call.root = "D" /\ call.type = "major" /\ call.midi % 12 = 6)
               => (note.name = <<"F">> /\ note.accidental = "#")

\* C5 witness: F natural (pitch 65) spelled in D major carries the natural
C5_Witness ==
    /\ call = [midi |-> 65, root |-> "D", type |-> "major"]
    /\ note # NoNote
    /\ note.accidental = "n"

\* The keys the claim lists as flat-spelled
FlatSpelledKey ==
    \/ call.root \in {"F", "Bb", "Eb", "Ab", "Db", "Gb", "Cb"}
    \/ call.type = "minor" /\ call.root \in {"D", "G", "C", "F", "Bb", "Eb"}

\* C6: midiToNote spells with the flat table (never '#') exactly for the roots
\* F, Bb, Eb, Ab, Db, Gb, Cb of either type and the minor keys on D, G, C, F,
\* Bb, Eb; every other key is spelled with the sharp table (never 'b').
C6_FlatPreference ==
    note # NoNote =>
        LET black == (call.midi % 12) \in {1, 3, 6, 8, 10}
        IN  IF FlatSpelledKey
            THEN /\ note.accidental # "#"
                 /\ black => note.accidental = "b"
                 /\ note.name = <<NOTE_NAMES_FLAT[(call.midi % 12) + 1][1]>>
            ELSE /\ note.accidental # "b"
                 /\ black => note.accidental = "#"
                 /\ note.name = <<NOTE_NAMES_SHARP[(call.midi % 12) + 1][1]>>

\* C6 witness: pitch 61 in D minor is spelled D flat
C6_Witness ==
    /\ call = [midi |-> 61, root |-> "D", type |-> "minor"]
    /\ note # NoNote
    /\ note.name = <<"D">> /\ note.accidental = "b"

----------------------------------------------------------------------------
(* Claims about generateExercise, checked under SpecGen                    *)

GenNotes == {<<i, k>> \in (DOMAIN genItems) \X (1..4) : k <= Len(genItems[i].notes)}

\* C2: with useAccidentals = false (any clef, key, mode, random outcome) every
\* note of every returned item has a pitch-class in the key's diatonic set.
C2_StrictDiatonic ==
    (genState # "ready" /\ ~genSettings.useAccidentals) =>
        /\ genState = "returned"
        /\ \A p \in GenNotes :
              \E d \in 1..7 :
                 getScalePitchClasses(genSettings.keyRoot, genSettings.keyType)[d]
                    = genItems[p[1]].notes[p[2]].midi % 12

\* C2 witness: a strict D major chord round holding a full seventh chord
C2_Witness ==
    /\ genState = "returned"
    /\ genSettings.mode = "chords" /\ ~genSettings.useAccidentals
    /\ genSettings.keyRoot = "D" /\ genSettings.keyType = "major"
    /\ \E i \in DOMAIN genItems : Len(genItems[i].notes) = 4

\* C3: every generated pitch lies in [53,88] for treble and [29,67] for bass, in
\* every mode, strict or chromatic; in chords mode the root is at most max - 11
\* and no tone is more than 11 semitones above the root.
C3_RangeContainment ==
    genState # "ready" =>
        LET lo == IF genSettings.clef = "treble" THEN 53 ELSE 29
            hi == IF genSettings.clef = "treble" THEN 88 ELSE 67
        IN  /\ \A p \in GenNotes :
                  /\ genItems[p[1]].notes[p[2]].midi >= lo
                  /\ genItems[p[1]].notes[p[2]].midi <= hi
            /\ genSettings.mode = "chords" =>
                  \A p \in GenNotes :
                     /\ genItems[p[1]].notes[1].midi <= hi - 11
                     /\ genItems[p[1]].notes[p[2]].midi
                           <= genItems[p[1]].notes[1].midi + 11

\* C3 witness: a treble chord on the highest root 77 whose seventh is pitch 88
C3_Witness ==
    /\ genState = "returned"
    /\ genSettings.mode = "chords" /\ genSettings.clef = "treble"
    /\ \E i \in DOMAIN genItems :
          /\ genItems[i].notes[1].midi = 77
          /\ genItems[i].notes[Len(genItems[i].notes)].midi = 88

\* C7: generateExercise returns exactly 6 items in single mode and in chords
\* mode, every single-mode item holds exactly one note, and every returned item
\* of every mode has status 'pending'.
C7_ItemCounts ==
    genState # "ready" =>
        /\ genState = "returned"
        /\ genSettings.mode \in {"single", "chords"} => Len(genItems) = 6
        /\ genSettings.mode = "single" =>
              \A i \in DOMAIN genItems : Len(genItems[i].notes) = 1
        /\ \A i \in DOMAIN genItems : genItems[i].status = "pending"

\* C7 witness: the example {treble, D, major, strict, single} returned 6 items
C7_Witness ==
    /\ genState = "returned"
    /\ genSettings = [clef |-> "treble", useAccidentals |-> FALSE, mode |-> "single",
                      keyRoot |-> "D", keyType |-> "major"]
    /\ Len(genItems) = 6

BeamGroups == {genItems[i].beamGroupIndex : i \in DOMAIN genItems}
BeamSize(g) == Cardinality({i \in DOMAIN genItems : genItems[i].beamGroupIndex = g})

\* C8: in beams mode the output has 3 or 4 groups; the items of a group are
\* consecutive and number 4 to 6; the indices are non-decreasing along the
\* sequence and are exactly 0..numGroups-1; the total count is the sum of the
\* group sizes (12 to 24); every item has one note of duration '16' and
\* isBeamGroup = true.
C8_BeamGrouping ==
    (genState # "ready" /\ genSettings.mode = "beams") =>
        /\ genState = "returned"
        /\ Cardinality(BeamGroups) \in {3, 4}
        /\ BeamGroups = 0..(Cardinality(BeamGroups) - 1)
        /\ \A g \in BeamGroups : BeamSize(g) \in 4..6
        /\ genItems[1].beamGroupIndex = 0
        /\ \A i \in 1..(Len(genItems) - 1) :
              \/ genItems[i + 1].beamGroupIndex = genItems[i].beamGroupIndex
              \/ genItems[i + 1].beamGroupIndex = genItems[i].beamGroupIndex + 1
        /\ Len(genItems) >= 12 /\ Len(genItems) <= 24
        /\ \A i \in DOMAIN genItems :
              /\ Len(genItems[i].notes) = 1
              /\ genItems[i].notes[1].duration = "16"
              /\ genItems[i].isBeamGroup = TRUE

\* C8 witness: a beams round of 4 groups whose sizes differ
C8_Witness ==
    /\ genState = "returned" /\ genSettings.mode = "beams"
    /\ BeamGroups = 0..3
    /\ \E g, h \in BeamGroups : BeamSize(g) = 4 /\ BeamSize(h) = 6

----------------------------------------------------------------------------
(* Claims about the judge's ordering and the item state machine            *)

Ascending(seq) == \A k \in 1..(Len(seq) - 1) : seq[k] < seq[k + 1]

\* on the keyboard's pitches the string order of the default sort is the
\* numeric order, so a sorted pair of keys is in ascending numeric order
KeyboardSortAgrees ==
    \A a, b \in KeyboardPitches :
       /\ DefaultSort(<<a, b>>) = IF a <= b THEN <<a, b>> ELSE <<b, a>>
       /\ StringLess(NumberToString(a), NumberToString(b)) <=> a < b

\* C9: for any generated chord item, the order in which the judge compares the
\* target pitches (map(n => n.midi).sort(), a string-order sort) is their
\* ascending numeric order, and the same holds for a sorted learner selection
\* drawn from the keyboard pitches 29..88.
C9_ChordOrdering ==
    /\ (genState # "ready" /\ genSettings.mode = "chords") =>
          \A i \in DOMAIN genItems :
             LET sorted == DefaultSort(TargetMidis(genItems[i]))
             IN  /\ Ascending(sorted)
                 /\ Len(sorted) = Len(genItems[i].notes)
                 /\ SeqRange(sorted) = SeqRange(TargetMidis(genItems[i]))
    /\ KeyboardPitches = 29..88
    /\ KeyboardSortAgrees

\* C9 witness: a bass seventh chord on the lowest key (29), sorted by the judge
C9_Witness ==
    /\ genState = "returned" /\ genSettings.mode = "chords"
    /\ genSettings.clef = "bass"
    /\ \E i \in DOMAIN genItems :
          /\ Len(genItems[i].notes) = 4
          /\ DefaultSort(TargetMidis(genItems[i]))[1] = 29

\* the steps in which a handler judges the learner's input as not matching
WrongInputStep ==
    \/ \E midi \in KeyboardPitches : PianoIncorrect(midi)
    \/ SubmitChordIncorrect

\* the steps in which a handler judges the learner's input as matching
RightInputStep ==
    \/ \E midi \in KeyboardPitches : PianoCorrect(midi)
    \/ SubmitChordCorrect

\* C10: an item goes pending -> correct on matching input; on non-matching
\* input the active item's status becomes 'incorrect' while the same item stays
\* the active target (cursor unchanged); 'correct' is never left within a round.
C10_ItemStateMachine ==
    [][/\ RightInputStep =>
             /\ exerciseItems[cursorIndex + 1].status \in {"pending", "correct"}
             /\ exerciseItems'[cursorIndex + 1].status = "correct"
       /\ WrongInputStep =>
             /\ exerciseItems'[cursorIndex + 1].status = "incorrect"
             /\ cursorIndex' = cursorIndex
       /\ (RightInputStep \/ WrongInputStep \/ ClearFeedback) =>
             /\ Len(exerciseItems') = Len(exerciseItems)
             /\ \A i \in DOMAIN exerciseItems :
                   exerciseItems[i].status = "correct"
                      => exerciseItems'[i].status = "correct"]_vars

----------------------------------------------------------------------------
(* Claims about the round controller, checked under Spec                   *)

\* a step of an input handler: handlePianoInput or submitChord
InputStep == HandlePianoInput \/ SubmitChord

\* the item with its status set aside
SameButStatus(a, b) == [a EXCEPT !.status = b.status] = b

\* C11: no input-handling step (handlePianoInput, submitChord) changes the
\* length of the sequence, the order of its items or any item's notes, id or
\* beam-group index; only the status of the item at the cursor may change.
C11_SequenceImmutable ==
    [][InputStep =>
          /\ Len(exerciseItems') = Len(exerciseItems)
          /\ \A i \in DOMAIN exerciseItems :
                /\ SameButStatus(exerciseItems[i], exerciseItems'[i])
                /\ i # cursorIndex + 1 => exerciseItems'[i] = exerciseItems[i]]_vars

\* C11 witness: a beams round in which inputs were judged: the first two items
\* are correct and the cursor is on the third
C11_Witness ==
    /\ isPlaying /\ settings.mode = "beams"
    /\ cursorIndex = 2
    /\ Len(exerciseItems) >= 12
    /\ exerciseItems[1].status = "correct"
    /\ exerciseItems[2].status = "correct"
    /\ exerciseItems[3].status = "pending"
    /\ exerciseItems[3].beamGroupIndex = 0

\* C12: a nextTurn callback installs a new sequence only when the game is
\* playing and every item of the sequence it replaces is 'correct'; it never
\* discards a round with pending items and never installs a sequence after the
\* game was stopped.
C12_ReplacedBetweenRounds ==
    [][NextTurn =>
          /\ isPlaying
          /\ exerciseItems # <<>>
          /\ \A i \in DOMAIN exerciseItems : exerciseItems[i].status = "correct"]_vars

----------------------------------------------------------------------------
(* Claims about the generator's loops and the keyboard                     *)

\* C13: for every GameSettings and every outcome of the draws generateExercise
\* returns: no call ends up given up as looping, no chord attempt is
\* discarded and retried, and the number of Math.random() calls is bounded by
\* a constant per item (at most 100 attempts of the pitch draw, plus the
\* draws of the chord structure) plus the draws of the beam grouping.
C13_Termination ==
    /\ genState \in {"ready", "returned"}
    /\ genState = "returned" =>
          /\ genDiscarded = 0
          /\ genDraws <= Len(genItems) * (MaxAttempts + 3) + 5

\* C13 witness: a strict chords round in which every root draw used up its 100
\* attempts and fell back to the linear scan
C13_Witness ==
    /\ genState = "returned"
    /\ genSettings.mode = "chords" /\ ~genSettings.useAccidentals
    /\ Len(genItems) = ItemCount
    /\ genDraws = ItemCount * (MaxAttempts + 1)

\* validity of a pitch for the settings of the getValidRandomMidi call
DrawValid(m) ==
    \/ genSettings.useAccidentals
    \/ \E k \in 1..7 :
          getScalePitchClasses(genSettings.keyRoot, genSettings.keyType)[k] = m % 12

\* the pitch of the attempt numbered a (from 0) of the call
DrawPitch(a) == getRandomInt(drawCall.min, drawCall.max, Random(drawCall.tape, a))

DrawRange == drawCall.min..drawCall.max

\* C14: getValidRandomMidi always returns a pitch in [min, max]: the first
\* valid one of its up to 100 draws; if none of the 100 draws is valid, the
\* lowest valid pitch of the range; an invalid pitch (the range minimum) only
\* when the range holds no valid pitch, which is not the case for the treble,
\* bass and chord-root ranges in any of the 30 keys.
C14_DrawFallback ==
    /\ [min |-> drawCall.min, max |-> drawCall.max] \in ExerciseRanges
          => \E m \in DrawRange : DrawValid(m)
    /\ drawResult # <<>> =>
          LET r == drawResult[1]
              hit == \E a \in 0..(MaxAttempts - 1) : DrawValid(DrawPitch(a))
          IN  /\ r.midi \in DrawRange
              /\ r.pos <= MaxAttempts
              /\ hit => \E a \in 0..(MaxAttempts - 1) :
                           /\ DrawValid(DrawPitch(a))
                           /\ \A b \in 0..(a - 1) : ~DrawValid(DrawPitch(b))
                           /\ r.midi = DrawPitch(a)
                           /\ r.pos = a + 1
              /\ (~hit /\ \E m \in DrawRange : DrawValid(m)) =>
                    /\ DrawValid(r.midi)
                    /\ \A j \in drawCall.min..(r.midi - 1) : ~DrawValid(j)
              /\ ~DrawValid(r.midi) =>
                    /\ r.midi = drawCall.min
                    /\ \A m \in DrawRange : ~DrawValid(m)

\* C14 witness: on the treble range none of the 100 draws was valid and the
\* scan returned the lowest valid pitch, which lies above the range minimum
C14_Witness ==
    /\ drawResult # <<>>
    /\ drawCall.min = TREBLE_MIN /\ drawCall.max = TREBLE_MAX
    /\ drawResult[1].pos = MaxAttempts
    /\ \A a \in 0..(MaxAttempts - 1) : ~DrawValid(DrawPitch(a))
    /\ DrawValid(drawResult[1].midi)
    /\ drawResult[1].midi > drawCall.min

\* a short range without a valid pitch: the call degrades to the range minimum
C14_DegradedReached ==
    /\ drawResult # <<>>
    /\ \A m \in DrawRange : ~DrawValid(m)
    /\ drawResult[1].midi = drawCall.min

----------------------------------------------------------------------------
(* Claims about the strict chord construction, checked under SpecSpell     *)

\* the scale of the call as the set of its pitch-classes
CallScale == {(ROOT_MIDI_VALUES[call.root] + iv) % 12 :
                 iv \in (IF call.type = "major" THEN {0, 2, 4, 5, 7, 9, 11}
                                                ELSE {0, 2, 3, 5, 7, 8, 10})}

\* the pitch n scale steps above the diatonic pitch m: the n-th next pitch
\* whose pitch-class is in the scale
RECURSIVE StepsAbove(_, _)
StepsAbove(m, n) ==
    IF n = 0 THEN m
    ELSE LET below == StepsAbove(m, n - 1)
         IN  CHOOSE p \in (below + 1)..(below + 12) :
                /\ p % 12 \in CallScale
                /\ \A q \in (below + 1)..(p - 1) : q % 12 \notin CallScale

\* the chord of thirds stacked within the scale on the root m
StackedThirds(m, isSeventh) ==
    <<m, StepsAbove(m, 2), StepsAbove(m, 4)>>
        \o (IF isSeventh THEN <<StepsAbove(m, 6)>> ELSE <<>>)

\* C15: for each of the 30 keys and every diatonic root, the semitone-probing
\* construction of strict mode yields exactly the root plus the scale tones 2
\* and 4 (and, with the seventh flag, 6) scale steps above it: 3 notes (4 with
\* the flag) in strictly ascending order, all diatonic, never discarded.
C15_StackedThirds ==
    (chord # <<>> /\ call.midi % 12 \in CallScale) =>
        LET c == chord[1]
        IN  /\ c.midis # <<>>
            /\ c.midis = StackedThirds(call.midi, c.isSeventh)
            /\ Len(c.midis) = IF c.isSeventh THEN 4 ELSE 3
            /\ \A k \in 1..(Len(c.midis) - 1) : c.midis[k] < c.midis[k + 1]
            /\ \A k \in DOMAIN c.midis : c.midis[k] % 12 \in CallScale

\* C15 witness: the seventh chord on the leading tone of C major (B3), whose
\* fifth is the diminished one: B D F A
C15_Witness ==
    /\ chord # <<>>
    /\ call = [midi |-> 59, root |-> "C", type |-> "major"]
    /\ chord[1].isSeventh
    /\ chord[1].midis = <<59, 62, 65, 69>>

----------------------------------------------------------------------------
(* Claims about the keyboard, checked under SpecGen                        *)

\* the white keys of the keyboard, in order
WhiteKeys == SelectSeq(KEYBOARD_MAP, LAMBDA k : k.type = "white")

\* one key per consecutive pitch from 29 up to and including 88, 35 of them
\* white, with middle C as the 19th white key
KeyboardLayout ==
    /\ Len(KEYBOARD_MAP) = 88 - 29 + 1
    /\ \A i \in DOMAIN KEYBOARD_MAP : KEYBOARD_MAP[i].midi = 29 + (i - 1)
    /\ Len(WhiteKeys) = 35
    /\ WhiteKeys[19].midi = MIDDLE_C
    /\ \A k \in DOMAIN KEYBOARD_MAP :
          KEYBOARD_MAP[k].type = "white" <=> KEYBOARD_MAP[k].midi % 12 \in {0, 2, 4, 5, 7, 9, 11}
    /\ (TREBLE_MIN..TREBLE_MAX) \subseteq KeyboardPitches
    /\ (BASS_MIN..BASS_MAX) \subseteq KeyboardPitches

\* C16: generateKeyboardMap produces one key for each pitch 29..88 and no
\* other, 35 of them white with pitch 60 as the 19th; every pitch of every
\* item generateExercise returns, for either clef, is a key of the keyboard.
C16_TargetsPlayable ==
    /\ KeyboardLayout
    /\ \A i \in DOMAIN genItems :
          \A k \in DOMAIN genItems[i].notes :
             genItems[i].notes[k].midi \in KeyboardPitches

\* C16 witness: a treble round with a target on the highest key of the keyboard
C16_Witness ==
    /\ genState = "returned"
    /\ genSettings.mode = "single" /\ genSettings.clef = "treble"
    /\ \E i \in DOMAIN genItems :
          genItems[i].notes[1].midi = KEYBOARD_MAP[Len(KEYBOARD_MAP)].midi

----------------------------------------------------------------------------
(* Claims about the progress of a round, checked under SpecLive            *)

AllCorrect(items) == \A i \in DOMAIN items : items[i].status = "correct"
AllPending(items) == \A i \in DOMAIN items : items[i].status = "pending"

\* playing an immediate-evaluation mode (single or beams) on a round
PlayingNotes ==
    /\ isPlaying
    /\ settings.mode \in {"single", "beams"}
    /\ exerciseItems # <<>>

\* the last item of the round was answered: every item is correct
RoundDone == PlayingNotes /\ AllCorrect(exerciseItems)

\* a round as nextTurn installs it
FreshRound ==
    /\ isPlaying
    /\ exerciseItems # <<>>
    /\ AllPending(exerciseItems)
    /\ cursorIndex = 0
    /\ selectedChordNotes = <<>>
    /\ feedbackMessage = "null"

\* C17: in single or beams mode each input of the active item's pitch turns
\* that item 'correct' and advances the cursor by exactly one (on the last
\* item it schedules the next round instead); the learner who keeps playing
\* the active pitch gets every item correct; after the last item is correct a
\* fresh round (all pending, cursor 0, empty selection, no feedback message)
\* is eventually installed; the game keeps playing unless the learner quits.
C17_RoundProgress ==
    /\ [][CorrectKey =>
             /\ exerciseItems'[cursorIndex + 1].status = "correct"
             /\ \A i \in 1..cursorIndex : exerciseItems'[i].status = "correct"
             /\ isPlaying'
             /\ IF cursorIndex + 1 < Len(exerciseItems)
                THEN cursorIndex' = cursorIndex + 1
                ELSE cursorIndex' = cursorIndex /\ nextTurnTimers' # <<>>]_vars
    /\ [][(NextTurn /\ isPlaying) => FreshRound']_vars
    /\ PlayingNotes ~> (RoundDone \/ ~isPlaying)
    /\ RoundDone ~> (FreshRound \/ ~isPlaying)

\* C17 witness: the last item of a single round was just answered: every item
\* is correct, the cursor rests on the last item and the next round is scheduled
C17_Witness ==
    /\ isPlaying /\ settings.mode = "single"
    /\ Len(exerciseItems) = ItemCount
    /\ AllCorrect(exerciseItems)
    /\ cursorIndex = ItemCount - 1
    /\ nextTurnTimers # <<>>

----------------------------------------------------------------------------
(* Claims about the controller's state, checked under Spec                 *)

\* C18: whenever the sequence is non-empty, 0 <= cursorIndex < its length,
\* every item before the cursor is 'correct', every item after it is
\* 'pending', and the item at the cursor is 'pending', or 'correct' only when
\* it is the final item of the round (answered, the round not yet replaced).
C18_CursorStatus ==
    exerciseItems # <<>> =>
        /\ cursorIndex \in 0..(Len(exerciseItems) - 1)
        /\ \A i \in 1..cursorIndex : exerciseItems[i].status = "correct"
        /\ \A i \in (cursorIndex + 2)..Len(exerciseItems) :
              exerciseItems[i].status = "pending"
        /\ \/ exerciseItems[cursorIndex + 1].status = "pending"
           \/ /\ exerciseItems[cursorIndex + 1].status = "correct"
              /\ cursorIndex + 1 = Len(exerciseItems)

\* C18 witness: a chords round whose final item was answered correctly: the
\* cursor rests on it, it is 'correct' like every item before it
C18_Witness ==
    /\ isPlaying /\ settings.mode = "chords"
    /\ Len(exerciseItems) = ItemCount
    /\ cursorIndex = ItemCount - 1
    /\ \A i \in DOMAIN exerciseItems : exerciseItems[i].status = "correct"
    /\ Len(exerciseItems[ItemCount].notes) >= 3

\* a chords-mode piano input: the toggle of one key
ToggleStep == \E midi \in KeyboardPitches : PianoToggle(midi)

\* the selection after toggling the key m in it
Toggled(sel, m) == IF Includes(sel, m) THEN Without(sel, m) ELSE Append(sel, m)

NoDuplicate(seq) == Cardinality(SeqRange(seq)) = Len(seq)

SelectionIsTarget ==
    SeqRange(selectedChordNotes) = SeqRange(TargetMidis(exerciseItems[cursorIndex + 1]))

\* C19: in chords mode a piano input toggles its pitch in the selection (the
\* selection never holds a duplicate, toggling a key twice restores it) and
\* leaves items and cursor alone; submitChord marks the active item 'correct'
\* iff the set of selected pitches equals the set of its target pitches, in
\* whatever order they were selected; a correct submit clears the selection
\* and advances the cursor by one (or schedules the next round on the last
\* item); an incorrect submit leaves items, cursor and selection unchanged.
C19_ChordJudging ==
    /\ [](/\ NoDuplicate(selectedChordNotes)
          /\ \A m \in SeqRange(selectedChordNotes) \cup {START_MIDI, MIDDLE_C} :
                SeqRange(Toggled(Toggled(selectedChordNotes, m), m))
                   = SeqRange(selectedChordNotes))
    /\ [][ToggleStep =>
             /\ \E m \in KeyboardPitches :
                   /\ SeqRange(selectedChordNotes') =
                         IF m \in SeqRange(selectedChordNotes)
                         THEN SeqRange(selectedChordNotes) \ {m}
                         ELSE SeqRange(selectedChordNotes) \cup {m}
                   /\ Len(selectedChordNotes') =
                         IF m \in SeqRange(selectedChordNotes)
                         THEN Len(selectedChordNotes) - 1
                         ELSE Len(selectedChordNotes) + 1
             /\ exerciseItems' = exerciseItems
             /\ cursorIndex' = cursorIndex]_vars
    /\ [][SubmitChord =>
             /\ SelectionIsTarget => exerciseItems'[cursorIndex + 1].status = "correct"
             /\ ~SelectionIsTarget => exerciseItems' = exerciseItems
             /\ SubmitChordCorrect =>
                   /\ SelectionIsTarget
                   /\ selectedChordNotes' = <<>>
                   /\ IF cursorIndex + 1 < Len(exerciseItems)
                      THEN cursorIndex' = cursorIndex + 1 /\ UNCHANGED nextTurnTimers
                      ELSE /\ cursorIndex' = cursorIndex
                           /\ nextTurnTimers' = Append(nextTurnTimers, settings)
             /\ SubmitChordIncorrect =>
                   /\ ~SelectionIsTarget
                   /\ exerciseItems' = exerciseItems
                   /\ cursorIndex' = cursorIndex
                   /\ selectedChordNotes' = selectedChordNotes]_vars

\* C19 witness: the first chord was submitted correctly and the second chord's
\* three targets are selected from the top down, ready for the next submit
C19_Witness ==
    /\ isPlaying /\ settings.mode = "chords"
    /\ cursorIndex = 1
    /\ exerciseItems[1].status = "correct"
    /\ exerciseItems[2].status = "pending"
    /\ Len(selectedChordNotes) = 3
    /\ SelectionIsTarget
    /\ selectedChordNotes[1] > selectedChordNotes[2]
    /\ selectedChordNotes[2] > selectedChordNotes[3]

====
